---------------------------- MODULE Spec2Model ----------------------------
(***************************************************************************)
(* A model of signpost, a small recursive DNS resolver.                    *)
(*                                                                         *)
(*   src/src/main.rs    recursive_lookup, lookup, handle_query, main       *)
(*   src/src/packet.rs  DNSPacket, DNSRecord, DNSHeader, BytePacketBuffer  *)
(*                                                                         *)
(* The module holds several specifications over one set of variables:      *)
(*   Spec / FairSpec   the server loop and the resolver (main.rs)          *)
(*   SpecQname         read_qname on buffers of labels and pointers        *)
(*   SpecWire          DNSPacket::write and DNSPacket::from_buffer on       *)
(*                     messages and on datagrams                           *)
(*   SpecHdr           DNSHeader::read and DNSHeader::write                *)
(*   SpecEncode        DNSPacket::write on messages that fill the buffer    *)
(* Each specification leaves the variables of the others at their initial  *)
(* values.                                                                 *)
(***************************************************************************)
EXTENDS Integers, Sequences, FiniteSets, TLC

VARIABLES
    pc,        \* where the server is: "idle", "send", "wait", "reply"
    request,   \* the question popped by handle_query, or NoQuestion
    stack,     \* the activations of recursive_lookup, innermost last
    wire,      \* the upstream request in flight (lookup), or NoWire
    res,       \* what recursive_lookup returned to handle_query
    reply,     \* the response handle_query sent to the client, or NoReply
    lastResp,  \* history: the upstream response handled by the last step
    lastFrame, \* history: the activation that handled it
    nxSeen,    \* history: an NXDOMAIN response was received for this request
    buffer,    \* a BytePacketBuffer: [buf, pos] and the outcome of the last call
    qstart,    \* the cursor read_qname was called at
    qcall,     \* the locals of the running read_qname, or NoCall
    qiters,    \* history: the iterations its loop has made
    qres,      \* what read_qname returned: the name and the pointers followed
    msg,       \* the DNSPacket being written, or NoPacket
    written,   \* the entries of msg that DNSPacket::write has written
    packet,    \* the DNSPacket that from_buffer has read so far, or NoPacket
    phase,     \* where the exchange of the message is
    hdr        \* a header taken through DNSHeader::read and DNSHeader::write

resolverVars ==
    <<pc, request, stack, wire, res, reply, lastResp, lastFrame, nxSeen>>
qnameVars == <<qstart, qcall, qiters, qres>>
wireVars == <<msg, written, packet, phase>>
codecVars == <<buffer, qnameVars, wireVars, hdr>>
vars == <<resolverVars, codecVars>>

(***************************************************************************)
(* Bounds of the model.                                                    *)
(***************************************************************************)
\* The deepest nesting of recursive_lookup activations explored.
MaxDepth == 2
\* The two-octet cells (a pointer, a label or a terminator each) laid out
\* from offset 0 in the buffers read_qname is run on.
MaxCells == 7

(***************************************************************************)
(* Values.                                                                 *)
(***************************************************************************)
NoQuestion == [none |-> "question"]
NoWire     == [none |-> "wire"]
NoReply    == [none |-> "reply"]
NoResp     == [none |-> "response"]
NoFrame    == [none |-> "frame"]
NoAddr     == "none"
NoName     == <<"?">>
Pending    == [pending |-> TRUE]
Err        == [err |-> TRUE]

\* a.root-servers.net, the address every activation starts from
RootNs == "198.41.0.4"

\* Domain names are sequences of lowercase labels (read_qname lowercases).
QName == <<"ex", "com">>
Host1 == <<"ns1", "net">>
Host2 == <<"ns2", "net">>

RecA(d, a)   == [type |-> "A", domain |-> d, addr |-> a, host |-> NoName]
RecNS(d, h)  == [type |-> "NS", domain |-> d, addr |-> NoAddr, host |-> h]
RecCN(d, h)  == [type |-> "CNAME", domain |-> d, addr |-> NoAddr, host |-> h]
RecUnk(d)    == [type |-> "UNKNOWN", domain |-> d, addr |-> NoAddr, host |-> NoName]

Rescodes == {"NOERROR", "NXDOMAIN", "SERVFAIL"}

\* The sections an upstream server may put in a response.
AnswerChoices ==
    { <<>>,
      <<RecCN(QName, Host1), RecA(Host1, "10.0.0.2")>> }

AuthorityChoices ==
    { <<>>,
      <<RecUnk(<<"com">>), RecNS(<<"com">>, Host1)>>,
      <<RecNS(<<"com">>, Host1), RecNS(<<"com">>, Host2)>>,
      <<RecNS(<<"org">>, Host1), RecNS(<<"com">>, Host2)>>,
      <<RecNS(<<"net">>, Host2)>> }

ResourceChoices ==
    { <<>>,
      <<RecA(Host1, "10.0.0.1")>>,
      <<RecA(Host2, "10.0.0.2"), RecA(Host1, "10.0.0.1")>> }

Responses ==
    [rescode : Rescodes, answers : AnswerChoices,
     authorities : AuthorityChoices, resources : ResourceChoices]

\* The question sections a client may send; handle_query pops the last one.
Question(n, t) == [name |-> n, qtype |-> t]
Requests ==
    { <<>>,
      <<Question(QName, "MX")>>,
      <<Question(Host1, "MX"), Question(QName, "A")>> }

(***************************************************************************)
(* BytePacketBuffer (packet.rs 474-662).  buf holds the octets that are    *)
(* not zero, by index; new() fills the array with zeros.  err is "ok" or   *)
(* the error the last call returned, which `?` hands on.                   *)
(***************************************************************************)
BufLen == 512

Ok          == "ok"
EndOfBuffer == "end of buffer"
JumpLimit   == "Exceeded jump limit of 5"
LabelTooLong == "label exceeds 63 characters"

NoBytes == [i \in {} |-> 0]
NewBuffer == [buf |-> NoBytes, pos |-> 0, err |-> Ok]

Byte(buf, i) == IF i \in DOMAIN buf THEN buf[i] ELSE 0
Put(buf, i, v) ==
    IF v = 0 THEN [j \in (DOMAIN buf) \ {i} |-> buf[j]]
    ELSE [j \in (DOMAIN buf) \cup {i} |-> IF j = i THEN v ELSE buf[j]]

Fail(b, e) == IF b.err = Ok THEN [b EXCEPT !.err = e] ELSE b

\* packet.rs 548-552
set_position(b, pos) == IF b.err # Ok THEN b ELSE [b EXCEPT !.pos = pos]

\* packet.rs 543-546
skip(b, amount) == IF b.err # Ok THEN b ELSE [b EXCEPT !.pos = b.pos + amount]

\* packet.rs 579-584: peek(pos) fails
PeekFails(pos) == pos >= BufLen

\* packet.rs 586-591: peek_many(start, len) fails
PeekManyFails(start, len) == start + len >= BufLen

\* String::from_utf8_lossy(..).to_lowercase() on one octet: ASCII letters
\* are lowercased; an octet that is not ASCII becomes U+FFFD.
LowerChar(c) ==
    IF c >= 65 /\ c <= 90 THEN c + 32
    ELSE IF c >= 128 THEN 65533
    ELSE c

LowerBytes(buf, start, len) ==
    [k \in 1..len |-> LowerChar(Byte(buf, start + k - 1))]

\* packet.rs 491
max_jumps == 5

\* the test of packet.rs 497 done one jump late
JumpLimitExceededLate(curr_jump) == curr_jump > max_jumps + 1

\* packet.rs 497
JumpLimitExceeded(curr_jump) == curr_jump > max_jumps

\* packet.rs 507-509 without the `if !jumped`
AfterPointerAlways(b, pos, jumped) == set_position(b, pos + 2)

\* packet.rs 507-509: only the first pointer moves the cursor
AfterPointer(b, pos, jumped) ==
    IF ~jumped THEN set_position(b, pos + 2) ELSE b

\* Iterations a call of read_qname can make at most: max_jumps + 1 jumps,
\* and between two jumps pos grows until peek fails.
QnameFuel == (max_jumps + 2) * (BufLen + 1)

\* packet.rs 488-494: the locals of read_qname; b is the buffer (self)
QnameEnter(b) ==
    [b |-> b, pos |-> b.pos, jumped |-> FALSE, curr_jump |-> 0,
     out |-> <<>>, delimiter |-> <<>>, at |-> "loop"]

\* packet.rs 496-535: one iteration of the loop of read_qname
QnameIter(st) ==
    IF JumpLimitExceeded(st.curr_jump)
    THEN [st EXCEPT !.b = Fail(st.b, JumpLimit), !.at = "err"]
    ELSE IF PeekFails(st.pos)
    THEN [st EXCEPT !.b = Fail(st.b, EndOfBuffer), !.at = "err"]
    ELSE
    LET len == Byte(st.b.buf, st.pos) IN
    IF len \div 64 = 3
    THEN LET b1 == AfterPointer(st.b, st.pos, st.jumped) IN
         IF PeekFails(st.pos + 1)
         THEN [st EXCEPT !.b = Fail(b1, EndOfBuffer), !.at = "err"]
         ELSE [st EXCEPT !.b = b1,
                         !.pos = (len - 192) * 256 + Byte(st.b.buf, st.pos + 1),
                         !.jumped = TRUE,
                         !.curr_jump = st.curr_jump + 1]
    ELSE IF len = 0
    THEN [st EXCEPT !.pos = st.pos + 1, !.at = "break"]
    ELSE IF PeekManyFails(st.pos + 1, len)
    THEN [st EXCEPT !.pos = st.pos + 1,
                    !.out = st.out \o st.delimiter,
                    !.b = Fail(st.b, EndOfBuffer), !.at = "err"]
    ELSE [st EXCEPT !.pos = st.pos + 1 + len,
                    !.out = st.out \o st.delimiter
                              \o LowerBytes(st.b.buf, st.pos + 1, len),
                    !.delimiter = <<46>>]

\* packet.rs 537-540: after the loop
QnameExit(st) ==
    [b     |-> IF st.at = "break" /\ ~st.jumped
               THEN set_position(st.b, st.pos) ELSE st.b,
     name  |-> st.out,
     jumps |-> st.curr_jump]

RECURSIVE QnameRun(_, _)
QnameRun(st, fuel) ==
    IF st.at # "loop" THEN st
    ELSE IF fuel = 0 THEN [st EXCEPT !.b = Fail(st.b, "diverged"), !.at = "err"]
    ELSE QnameRun(QnameIter(st), fuel - 1)

\* packet.rs 487-541
read_qname(b) ==
    IF b.err # Ok THEN [b |-> b, name |-> <<>>, jumps |-> 0]
    ELSE QnameExit(QnameRun(QnameEnter(b), QnameFuel))

(***************************************************************************)
(* Integer reads and writes (packet.rs 554-577, 599-644).  A read returns  *)
(* the buffer and the value: [b, v].                                       *)
(***************************************************************************)
\* packet.rs 593-595
end_of_buf(b) == b.pos >= BufLen

\* packet.rs 555-562
read_u8(b) ==
    IF b.err # Ok THEN [b |-> b, v |-> 0]
    ELSE IF end_of_buf(b) THEN [b |-> Fail(b, EndOfBuffer), v |-> 0]
    ELSE [b |-> [b EXCEPT !.pos = b.pos + 1], v |-> Byte(b.buf, b.pos)]

\* packet.rs 565-568
read_u16(b) ==
    LET r1 == read_u8(b)
        r2 == read_u8(r1.b)
    IN  [b |-> r2.b, v |-> r1.v * 256 + r2.v]

\* packet.rs 571-577: a u32 is held as its two u16 halves, <<high, low>>
read_u32(b) ==
    LET r1 == read_u16(b)
        r2 == read_u16(r1.b)
    IN  [b |-> r2.b, v |-> <<r1.v, r2.v>>]

\* packet.rs 603: a store to buf[pos] with pos out of range panics
IndexPanic == "panic: index out of bounds"

\* write without the test of end_of_buf: the store at index 512 panics
writeUnchecked(b, value) ==
    IF b.err # Ok THEN b
    ELSE IF end_of_buf(b) THEN Fail(b, IndexPanic)
    ELSE [b EXCEPT !.buf = Put(b.buf, b.pos, value), !.pos = b.pos + 1]

\* packet.rs 617-625
write(b, value) ==
    IF b.err # Ok THEN b
    ELSE IF end_of_buf(b) THEN Fail(b, EndOfBuffer)
    ELSE [b EXCEPT !.buf = Put(b.buf, b.pos, value), !.pos = b.pos + 1]

\* packet.rs 627-630
write_u8(b, value) == write(b, value)

\* packet.rs 632-636
write_u16(b, value) == write(write(b, value \div 256), value % 256)

\* packet.rs 638-644
write_u32(b, value) == write_u16(write_u16(b, value[1]), value[2])

\* packet.rs 599-606: an index equal to the length passes the test and the
\* store panics
set_u8_at(b, pos, value) ==
    IF b.err # Ok THEN b
    ELSE IF pos > BufLen THEN Fail(b, EndOfBuffer)
    ELSE IF pos >= BufLen THEN Fail(b, IndexPanic)
    ELSE [b EXCEPT !.buf = Put(b.buf, pos, value)]

\* packet.rs 608-613
set_u16_at(b, pos, value) ==
    set_u8_at(set_u8_at(b, pos, value \div 256), pos + 1, value % 256)

(***************************************************************************)
(* Names are strings: sequences of characters, labels joined by ".".       *)
(***************************************************************************)
\* str::split("."): the labels of a name; "" has one empty label
RECURSIVE SplitDots(_, _, _)
SplitDots(name, i, label) ==
    IF i > Len(name) THEN <<label>>
    ELSE IF name[i] = 46 THEN <<label>> \o SplitDots(name, i + 1, <<>>)
    ELSE SplitDots(name, i + 1, Append(label, name[i]))

RECURSIVE WriteBytes(_, _, _)
WriteBytes(b, bytes, i) ==
    IF i > Len(bytes) THEN b
    ELSE WriteBytes(write_u8(b, bytes[i]), bytes, i + 1)

\* packet.rs 647-657: the loop of write_qname over the labels
RECURSIVE WriteLabels(_, _, _)
WriteLabels(b, labels, i) ==
    IF i > Len(labels) \/ b.err # Ok THEN b
    ELSE IF Len(labels[i]) > 63 THEN Fail(b, LabelTooLong)
    ELSE WriteLabels(WriteBytes(write_u8(b, Len(labels[i])), labels[i], 1),
                     labels, i + 1)

\* packet.rs 646-662
write_qname(b, qname) ==
    write_u8(WriteLabels(b, SplitDots(qname, 1, <<>>), 1), 0)

(***************************************************************************)
(* QueryType and ResultCode (packet.rs 291-346).                           *)
(***************************************************************************)
QT(tag)    == [tag |-> tag, num |-> 0]
QTUnknown(n) == [tag |-> "UNKNOWN", num |-> n]

\* packet.rs 336-345
QueryType_from_num(num) ==
    IF num = 1 THEN QT("A")
    ELSE IF num = 2 THEN QT("NS")
    ELSE IF num = 5 THEN QT("CNAME")
    ELSE IF num = 15 THEN QT("MX")
    ELSE IF num = 28 THEN QT("AAAA")
    ELSE QTUnknown(num)

\* packet.rs 325-334
QueryType_to_num(t) ==
    IF t.tag = "UNKNOWN" THEN t.num
    ELSE IF t.tag = "A" THEN 1
    ELSE IF t.tag = "NS" THEN 2
    ELSE IF t.tag = "CNAME" THEN 5
    ELSE IF t.tag = "MX" THEN 15
    ELSE 28

\* packet.rs 302-311
ResultCode_from_num(num) ==
    IF num = 1 THEN "FORMERR"
    ELSE IF num = 2 THEN "SERVFAIL"
    ELSE IF num = 3 THEN "NXDOMAIN"
    ELSE IF num = 4 THEN "NOTIMP"
    ELSE IF num = 5 THEN "REFUSED"
    ELSE "NOERROR"

\* packet.rs 292-299: `rescode as u8`
ResultCode_as_u8(c) ==
    IF c = "FORMERR" THEN 1
    ELSE IF c = "SERVFAIL" THEN 2
    ELSE IF c = "NXDOMAIN" THEN 3
    ELSE IF c = "NOTIMP" THEN 4
    ELSE IF c = "REFUSED" THEN 5
    ELSE 0

(***************************************************************************)
(* DNSHeader (packet.rs 377-472).                                          *)
(***************************************************************************)
Bit(x, k) == (x \div (2 ^ k)) % 2 = 1
Num(flag) == IF flag THEN 1 ELSE 0

\* packet.rs 397-415
NewHeader ==
    [id |-> 0, recursion_desired |-> FALSE, truncated_message |-> FALSE,
     authoritative_answer |-> FALSE, opcode |-> 0, response |-> FALSE,
     rescode |-> "NOERROR", cheching_disabled |-> FALSE,
     authed_data |-> FALSE, z |-> FALSE, recursion_available |-> FALSE,
     questions |-> 0, answers |-> 0, authoritative_entries |-> 0,
     resource_entries |-> 0]

\* packet.rs 417-442: returns [b, header]
DNSHeader_read(b) ==
    LET id    == read_u16(b)
        flags == read_u16(id.b)
        a     == flags.v \div 256
        fb    == flags.v % 256
        qd    == read_u16(flags.b)
        an    == read_u16(qd.b)
        ns    == read_u16(an.b)
        ar    == read_u16(ns.b)
    IN  [b |-> ar.b,
         header |->
           [id |-> id.v,
            recursion_desired |-> Bit(a, 0),
            truncated_message |-> Bit(a, 1),
            authoritative_answer |-> Bit(a, 2),
            opcode |-> (a \div 8) % 16,
            response |-> Bit(a, 7),
            rescode |-> ResultCode_from_num(fb % 16),
            cheching_disabled |-> Bit(fb, 4),
            authed_data |-> Bit(fb, 5),
            z |-> Bit(fb, 6),
            recursion_available |-> Bit(fb, 7),
            questions |-> qd.v, answers |-> an.v,
            authoritative_entries |-> ns.v, resource_entries |-> ar.v]]

\* The disjunction x | y of two octets.
RECURSIVE BitOr(_, _, _)
BitOr(x, y, k) ==
    IF k > 7 THEN 0
    ELSE (IF Bit(x, k) \/ Bit(y, k) THEN 2 ^ k ELSE 0) + BitOr(x, y, k + 1)

\* the second flags octet with the Z and AD bits exchanged
FlagsOctetBSwapped(h) ==
    ResultCode_as_u8(h.rescode) + 16 * Num(h.cheching_disabled)
      + 32 * Num(h.z) + 64 * Num(h.authed_data)
      + 128 * Num(h.recursion_available)

\* packet.rs 457-463: the second flags octet
FlagsOctetB(h) ==
    ResultCode_as_u8(h.rescode) + 16 * Num(h.cheching_disabled)
      + 32 * Num(h.authed_data) + 64 * Num(h.z)
      + 128 * Num(h.recursion_available)

\* packet.rs 449-455: the first flags octet; opcode is a u8 and `<< 3`
\* drops what does not fit
FlagsOctetA(h) ==
    BitOr(Num(h.recursion_desired) + 2 * Num(h.truncated_message)
            + 4 * Num(h.authoritative_answer) + 128 * Num(h.response),
          (h.opcode * 8) % 256, 0)

\* packet.rs 446-471
DNSHeader_write(h, b) ==
    LET b1 == write_u16(b, h.id)
        b2 == write_u8(b1, FlagsOctetA(h))
        b3 == write_u8(b2, FlagsOctetB(h))
        b4 == write_u16(b3, h.questions)
        b5 == write_u16(b4, h.answers)
        b6 == write_u16(b5, h.authoritative_entries)
    IN  write_u16(b6, h.resource_entries)

(***************************************************************************)
(* DNSQuestion (packet.rs 348-375).                                        *)
(***************************************************************************)
\* packet.rs 355-357
DNSQuestion_new(name, qtype) == [name |-> name, qtype |-> qtype]

\* packet.rs 359-365: returns [b, question]
DNSQuestion_read(b) ==
    LET n == read_qname(b)
        t == read_u16(n.b)
        c == read_u16(t.b)
    IN  [b |-> c.b,
         question |-> DNSQuestion_new(n.name, QueryType_from_num(t.v))]

\* packet.rs 367-374
DNSQuestion_write(q, b) ==
    write_u16(write_u16(write_qname(b, q.name), QueryType_to_num(q.qtype)), 1)

(***************************************************************************)
(* DNSRecord (packet.rs 79-289).  One record shape for the six variants;   *)
(* the fields a variant does not have are 0 or empty.                      *)
(***************************************************************************)
DNSRecord(type, domain, ttl) ==
    [type |-> type, domain |-> domain, ttl |-> ttl, addr |-> <<>>,
     host |-> <<>>, priority |-> 0, qtype |-> 0, data_len |-> 0]

\* packet.rs 87-91
DNSRecord_A(domain, addr, ttl) ==
    [DNSRecord("A", domain, ttl) EXCEPT !.addr = addr]
\* packet.rs 92-96
DNSRecord_NS(domain, host, ttl) ==
    [DNSRecord("NS", domain, ttl) EXCEPT !.host = host]
\* packet.rs 97-101
DNSRecord_CNAME(domain, host, ttl) ==
    [DNSRecord("CNAME", domain, ttl) EXCEPT !.host = host]
\* packet.rs 102-107
DNSRecord_MX(domain, priority, host, ttl) ==
    [DNSRecord("MX", domain, ttl) EXCEPT !.priority = priority, !.host = host]
\* packet.rs 108-112
DNSRecord_AAAA(domain, addr, ttl) ==
    [DNSRecord("AAAA", domain, ttl) EXCEPT !.addr = addr]
\* packet.rs 81-86
DNSRecord_UNKNOWN(domain, qtype, data_len, ttl) ==
    [DNSRecord("UNKNOWN", domain, ttl) EXCEPT !.qtype = qtype,
                                              !.data_len = data_len]

\* packet.rs 129-134: the four octets of an address read as a u32
Octets(x) == <<x[1] \div 256, x[1] % 256, x[2] \div 256, x[2] % 256>>

\* packet.rs 167-176: the two segments of a u32
Segments(x) == <<x[1], x[2]>>

\* packet.rs 116-191: returns [b, rec]
DNSRecord_read(b) ==
    LET d     == read_qname(b)
        t     == read_u16(d.b)
        qtype == QueryType_from_num(t.v)
        c     == read_u16(t.b)
        ttl   == read_u32(c.b)
        len   == read_u16(ttl.b)
    IN  IF qtype.tag = "A" THEN
            LET a == read_u32(len.b)
            IN  [b |-> a.b, rec |-> DNSRecord_A(d.name, Octets(a.v), ttl.v)]
        ELSE IF qtype.tag \in {"NS", "CNAME"} THEN
            LET h == read_qname(len.b)
            IN  [b |-> h.b,
                 rec |-> IF qtype.tag = "NS"
                         THEN DNSRecord_NS(d.name, h.name, ttl.v)
                         ELSE DNSRecord_CNAME(d.name, h.name, ttl.v)]
        ELSE IF qtype.tag = "MX" THEN
            LET pr == read_u16(len.b)
                h  == read_qname(pr.b)
            IN  [b |-> h.b, rec |-> DNSRecord_MX(d.name, pr.v, h.name, ttl.v)]
        ELSE IF qtype.tag = "AAAA" THEN
            LET a1 == read_u32(len.b)
                a2 == read_u32(a1.b)
                a3 == read_u32(a2.b)
                a4 == read_u32(a3.b)
            IN  [b |-> a4.b,
                 rec |-> DNSRecord_AAAA(d.name,
                            Segments(a1.v) \o Segments(a2.v)
                              \o Segments(a3.v) \o Segments(a4.v), ttl.v)]
        ELSE
            [b |-> skip(len.b, len.v),
             rec |-> DNSRecord_UNKNOWN(d.name, t.v, len.v, ttl.v)]

\* packet.rs 202-205, 219-222, ...: the name, type, class and TTL that start
\* every written record
WriteRecordHead(b, rec, qtype) ==
    write_u32(write_u16(write_u16(write_qname(b, rec.domain),
                                  QueryType_to_num(QT(qtype))), 1), rec.ttl)

\* packet.rs 224-229, 241-246, 259-265: RDLENGTH is written as 0 and set
\* once the data are written
PatchLength(b, pos) ==
    IF b.err # Ok THEN b ELSE set_u16_at(b, pos, (b.pos - (pos + 2)) % 65536)

RECURSIVE WriteU16s(_, _, _)
WriteU16s(b, values, i) ==
    IF i > Len(values) THEN b
    ELSE WriteU16s(write_u16(b, values[i]), values, i + 1)

\* packet.rs 193-288
DNSRecord_write(rec, b) ==
    IF b.err # Ok THEN b
    ELSE IF rec.type = "A" THEN
        WriteBytes(write_u16(WriteRecordHead(b, rec, "A"), 4), rec.addr, 1)
    ELSE IF rec.type \in {"NS", "CNAME"} THEN
        LET h == WriteRecordHead(b, rec, rec.type)
        IN  PatchLength(write_qname(write_u16(h, 0), rec.host), h.pos)
    ELSE IF rec.type = "MX" THEN
        LET h == WriteRecordHead(b, rec, "MX")
        IN  PatchLength(write_qname(write_u16(write_u16(h, 0), rec.priority),
                                    rec.host), h.pos)
    ELSE IF rec.type = "AAAA" THEN
        WriteU16s(write_u16(WriteRecordHead(b, rec, "AAAA"), 16), rec.addr, 1)
    ELSE b

(***************************************************************************)
(* DNSPacket (packet.rs 5-77).                                             *)
(***************************************************************************)
\* packet.rs 16-24
DNSPacket_new ==
    [header |-> NewHeader, questions |-> <<>>, answers |-> <<>>,
     authorities |-> <<>>, resources |-> <<>>]

\* packet.rs 55-58: write sets the counts of the header first
SyncCounts(p) ==
    [p EXCEPT !.header.questions = Len(p.questions) % 65536,
              !.header.answers = Len(p.answers) % 65536,
              !.header.authoritative_entries = Len(p.authorities) % 65536,
              !.header.resource_entries = Len(p.resources) % 65536]

\* The section that the loops of from_buffer (packet.rs 30-49) fill next.
ReadSection(p) ==
    IF Len(p.questions) < p.header.questions THEN "questions"
    ELSE IF Len(p.answers) < p.header.answers THEN "answers"
    ELSE IF Len(p.authorities) < p.header.authoritative_entries
         THEN "authorities"
    ELSE IF Len(p.resources) < p.header.resource_entries THEN "resources"
    ELSE "none"

\* The section that the loops of write (packet.rs 62-73) are in after n
\* entries.
WriteSection(p, n) ==
    IF n < Len(p.questions) THEN "questions"
    ELSE IF n < Len(p.questions) + Len(p.answers) THEN "answers"
    ELSE IF n < Len(p.questions) + Len(p.answers) + Len(p.authorities)
         THEN "authorities"
    ELSE IF n < Len(p.questions) + Len(p.answers) + Len(p.authorities)
                  + Len(p.resources) THEN "resources"
    ELSE "none"

NoResult == [none |-> "result"]
NoCall   == [none |-> "call"]

NoPacket == [none |-> "packet"]
NoHdr    == [none |-> "header"]

QnameIdle ==
    /\ qstart = 0
    /\ qcall = NoCall
    /\ qiters = 0
    /\ qres = NoResult

WireIdle ==
    /\ msg = NoPacket
    /\ written = 0
    /\ packet = NoPacket
    /\ phase = "idle"

CodecIdle ==
    /\ buffer = NewBuffer
    /\ QnameIdle
    /\ WireIdle
    /\ hdr = NoHdr

(***************************************************************************)
(* Selection of the next nameserver (DNSPacket::get_resolved_ns,           *)
(* get_unresolved_ns and get_random_a are called by main.rs; their bodies  *)
(* are not among the sources, so they follow sections 4.6.1 - 4.6.3 of the *)
(* specification).                                                         *)
(***************************************************************************)
\* d is a label-aligned suffix of q
IsSuffix(d, q) ==
    /\ Len(d) <= Len(q)
    /\ SubSeq(q, Len(q) - Len(d) + 1, Len(q)) = d

\* the address of the first A record of `records` from index j on whose
\* domain is `host`
RECURSIVE FindA(_, _, _)
FindA(records, host, j) ==
    IF j > Len(records) THEN NoAddr
    ELSE IF records[j].type = "A" /\ records[j].domain = host
         THEN records[j].addr
         ELSE FindA(records, host, j + 1)

RECURSIVE ScanResolved(_, _, _)
ScanResolved(resp, qname, i) ==
    IF i > Len(resp.authorities) THEN NoAddr
    ELSE LET rec  == resp.authorities[i]
             glue == IF rec.type = "NS" /\ IsSuffix(rec.domain, qname)
                     THEN FindA(resp.resources, rec.host, 1)
                     ELSE NoAddr
         IN  IF glue # NoAddr THEN glue ELSE ScanResolved(resp, qname, i + 1)

get_resolved_ns(resp, qname) == ScanResolved(resp, qname, 1)

RECURSIVE ScanUnresolved(_, _, _)
ScanUnresolved(resp, qname, i) ==
    IF i > Len(resp.authorities) THEN NoName
    ELSE LET rec == resp.authorities[i]
         IN  IF /\ rec.type = "NS"
                /\ IsSuffix(rec.domain, qname)
                /\ FindA(resp.resources, rec.host, 1) = NoAddr
             THEN rec.host
             ELSE ScanUnresolved(resp, qname, i + 1)

get_unresolved_ns(resp, qname) == ScanUnresolved(resp, qname, 1)

RECURSIVE ScanAnswersA(_, _)
ScanAnswersA(answers, j) ==
    IF j > Len(answers) THEN NoAddr
    ELSE IF answers[j].type = "A" THEN answers[j].addr
         ELSE ScanAnswersA(answers, j + 1)

get_random_a(resp) == ScanAnswersA(resp.answers, 1)

(***************************************************************************)
(* recursive_lookup (main.rs 8-49), one activation per stack entry.        *)
(***************************************************************************)
Frame(qname, qtype, ns) ==
    [qname |-> qname, qtype |-> qtype, ns |-> ns, response |-> NoResp]

Top(stk)  == stk[Len(stk)]
Pop(stk)  == SubSeq(stk, 1, Len(stk) - 1)
SetTop(stk, f) == [stk EXCEPT ![Len(stk)] = f]

\* main.rs 20-27: the response is returned as it is
IsFinal(r) ==
    \/ r.answers # <<>> /\ r.rescode = "NOERROR"
    \/ r.rescode = "NXDOMAIN"

\* main.rs 41-47: the activation on top of stk called recursive_lookup for an
\* NS host and got r back; it goes on with the first A answer or returns
\* its own response, and so on down the stack.
RECURSIVE Return(_, _)
Return(stk, r) ==
    IF stk = <<>> THEN [stack |-> <<>>, res |-> [ok |-> r]]
    ELSE LET f == Top(stk)
             a == get_random_a(r)
         IN  IF a # NoAddr
             THEN [stack |-> SetTop(stk, [f EXCEPT !.ns = a, !.response = NoResp]),
                   res |-> Pending]
             ELSE Return(Pop(stk), f.response)

\* FollowGlue with the assignment `ns = new_ns` lost
FollowGlueStale(f, new_ns) == f

\* main.rs 30-33: the nameserver the loop continues with on a glued referral
FollowGlue(f, new_ns) == [f EXCEPT !.ns = new_ns]

\* main.rs 20-47: what one loop iteration does with the response r
Step(stk, r) ==
    LET f == Top(stk)
        new_ns == get_resolved_ns(r, f.qname)
        new_ns_name == get_unresolved_ns(r, f.qname)
    IN  IF IsFinal(r) THEN Return(Pop(stk), r)
        ELSE IF new_ns # NoAddr
             THEN [stack |-> SetTop(stk, FollowGlue(f, new_ns)), res |-> Pending]
        ELSE IF new_ns_name = NoName THEN Return(Pop(stk), r)
        ELSE [stack |-> Append(SetTop(stk, [f EXCEPT !.response = r]),
                               Frame(new_ns_name, "A", RootNs)),
              res |-> Pending]

\* main.rs 51-66: the request lookup builds and sends
UpstreamRequest(f) ==
    [id |-> 1337,
     recursion_desired |-> TRUE,
     questions |-> <<Question(f.qname, f.qtype)>>,
     server |-> <<f.ns, 53>>]

\* BuildResponse with the SERVFAIL branch (main.rs 105-107) lost
BuildResponseNoServfail(question, result) ==
    LET base == [response |-> TRUE, recursion_desired |-> TRUE,
                 recursion_available |-> TRUE, rescode |-> "NOERROR",
                 questions |-> <<>>, answers |-> <<>>,
                 authorities |-> <<>>, resources |-> <<>>]
    IN  IF question = NoQuestion THEN [base EXCEPT !.rescode = "FORMERR"]
        ELSE IF result = Err THEN base
        ELSE [base EXCEPT !.questions = <<question>>,
                          !.rescode = result.ok.rescode,
                          !.answers = result.ok.answers,
                          !.authorities = result.ok.authorities,
                          !.resources = result.ok.resources]

\* main.rs 81-110: the response handle_query builds
BuildResponse(question, result) ==
    LET base == [response |-> TRUE, recursion_desired |-> TRUE,
                 recursion_available |-> TRUE, rescode |-> "NOERROR",
                 questions |-> <<>>, answers |-> <<>>,
                 authorities |-> <<>>, resources |-> <<>>]
    IN  IF question = NoQuestion THEN [base EXCEPT !.rescode = "FORMERR"]
        ELSE IF result = Err THEN [base EXCEPT !.rescode = "SERVFAIL"]
        ELSE [base EXCEPT !.questions = <<question>>,
                          !.rescode = result.ok.rescode,
                          !.answers = result.ok.answers,
                          !.authorities = result.ok.authorities,
                          !.resources = result.ok.resources]

(***************************************************************************)
(* The server loop.                                                        *)
(***************************************************************************)
ResolverIdle ==
    /\ pc = "idle"
    /\ request = NoQuestion
    /\ stack = <<>>
    /\ wire = NoWire
    /\ res = Pending
    /\ reply = NoReply
    /\ lastResp = NoResp
    /\ lastFrame = NoFrame
    /\ nxSeen = FALSE

Init == ResolverIdle /\ CodecIdle

\* main.rs 75-89: a datagram arrives and decodes; the last question is popped
ReceiveRequest(qs) ==
    /\ pc = "idle"
    /\ request' = IF qs = <<>> THEN NoQuestion ELSE qs[Len(qs)]
    /\ stack' = IF qs = <<>> THEN <<>>
                ELSE <<Frame(qs[Len(qs)].name, qs[Len(qs)].qtype, RootNs)>>
    /\ pc' = IF qs = <<>> THEN "reply" ELSE "send"
    /\ wire' = NoWire
    /\ res' = Pending
    /\ reply' = NoReply
    /\ lastResp' = NoResp
    /\ lastFrame' = NoFrame
    /\ nxSeen' = FALSE
    /\ UNCHANGED codecVars

\* main.rs 77-79: recv_from or from_buffer fails; handle_query returns the
\* error and nothing is sent
BadRequest ==
    /\ pc = "idle"
    /\ reply # NoReply
    /\ reply' = NoReply
    /\ res' = Pending
    /\ request' = NoQuestion
    /\ lastResp' = NoResp
    /\ lastFrame' = NoFrame
    /\ nxSeen' = FALSE
    /\ UNCHANGED <<pc, stack, wire, codecVars>>

\* main.rs 52-66: lookup sends the request of the innermost activation
LookupSend ==
    /\ pc = "send"
    /\ wire' = UpstreamRequest(Top(stack))
    /\ pc' = "wait"
    /\ UNCHANGED <<request, stack, res, reply, lastResp, lastFrame, nxSeen, codecVars>>

\* main.rs 17, 41: lookup fails (bind, write, send, recv or decode) and the
\* error leaves every activation through `?`
LookupFail ==
    /\ pc \in {"send", "wait"}
    /\ stack' = <<>>
    /\ wire' = NoWire
    /\ res' = Err
    /\ pc' = "reply"
    /\ UNCHANGED <<request, reply, lastResp, lastFrame, nxSeen, codecVars>>

\* main.rs 68-71 and 20-47: the response arrives, decodes, and the loop
\* handles it
LookupReceive(r) ==
    /\ pc = "wait"
    /\ ~IsFinal(r) /\ get_resolved_ns(r, Top(stack).qname) = NoAddr
         /\ get_unresolved_ns(r, Top(stack).qname) # NoName
       => Len(stack) < MaxDepth
    /\ LET next == Step(stack, r)
       IN  /\ stack' = next.stack
           /\ res' = next.res
           /\ pc' = IF next.stack = <<>> THEN "reply" ELSE "send"
    /\ wire' = NoWire
    /\ lastResp' = r
    /\ lastFrame' = Top(stack)
    /\ nxSeen' = (nxSeen \/ r.rescode = "NXDOMAIN")
    /\ UNCHANGED <<request, reply, codecVars>>

\* main.rs 112-119: the response is encoded and sent to the client
SendReply ==
    /\ pc = "reply"
    /\ reply' = BuildResponse(request, res)
    /\ pc' = "idle"
    /\ UNCHANGED <<request, stack, wire, res, lastResp, lastFrame, nxSeen, codecVars>>

\* main.rs 113-117: write or send_to fails; the client gets nothing
ReplyFail ==
    /\ pc = "reply"
    /\ reply' = NoReply
    /\ pc' = "idle"
    /\ UNCHANGED <<request, stack, wire, res, lastResp, lastFrame, nxSeen, codecVars>>

Next ==
    \/ \E qs \in Requests : ReceiveRequest(qs)
    \/ BadRequest
    \/ LookupSend
    \/ LookupFail
    \/ \E r \in Responses : LookupReceive(r)
    \/ SendReply
    \/ ReplyFail

Spec == Init /\ [][Next]_vars

\* Every query is answered or fails, and the server keeps serving.
FairSpec == Spec /\ WF_vars(Next)

(***************************************************************************)
(* Properties of the resolver and the server loop.                         *)
(***************************************************************************)
Resolving == pc \in {"send", "wait"}

\* C1: every call of recursive_lookup returns: whenever the resolver is
\* working on a request (and every query it sends is answered), it
\* eventually hands a response or an error back to handle_query.
C1_ResolveTerminates == Resolving ~> (pc = "reply")

\* C2: once a response with rescode NXDOMAIN has been received for a client
\* request, at any nesting, no further upstream query is in flight for it.
C2_NxdomainShortCircuits == nxSeen => pc # "wait"

\* The glued referrals of a response for qname: pairs <<i, j>> where
\* authority i is an NS record for a suffix of qname and additional j is an
\* A record for its host.
GluePairs(r, qname) ==
    { p \in (DOMAIN r.authorities) \X (DOMAIN r.resources) :
        /\ r.authorities[p[1]].type = "NS"
        /\ IsSuffix(r.authorities[p[1]].domain, qname)
        /\ r.resources[p[2]].type = "A"
        /\ r.resources[p[2]].domain = r.authorities[p[1]].host }

FirstGluePair(r, qname) ==
    CHOOSE p \in GluePairs(r, qname) :
        \A o \in GluePairs(r, qname) :
            p[1] < o[1] \/ (p[1] = o[1] /\ p[2] <= o[2])

NotReturned(r) ==
    /\ ~(Len(r.answers) > 0 /\ r.rescode = "NOERROR")
    /\ r.rescode # "NXDOMAIN"

GluedReferral ==
    /\ lastResp # NoResp
    /\ NotReturned(lastResp)
    /\ GluePairs(lastResp, lastFrame.qname) # {}

\* C3: when the response handled last was not returned and holds a glued NS
\* for the name asked, the query now in flight asks the same name and type
\* of the address of the first glued NS in on-wire order.
C3_GluedDelegationFollowed ==
    (pc = "wait" /\ GluedReferral) =>
        /\ wire.questions = <<Question(lastFrame.qname, lastFrame.qtype)>>
        /\ wire.server =
             <<lastResp.resources[FirstGluePair(lastResp, lastFrame.qname)[2]].addr, 53>>

\* C3 witness: a query is in flight after a referral with two glued NS whose
\* addresses differ, so the order of traversal decides the target.
C3_Witness ==
    /\ pc = "wait"
    /\ GluedReferral
    /\ Cardinality({ lastResp.resources[p[2]].addr :
                       p \in GluePairs(lastResp, lastFrame.qname) }) > 1

NoRecords(m) ==
    m.answers = <<>> /\ m.authorities = <<>> /\ m.resources = <<>>

\* C4 (as stated): every response sent to a client has rescode NOERROR or
\* carries no records.
C4_NoErrorOrNoRecords ==
    reply # NoReply => (reply.rescode = "NOERROR" \/ NoRecords(reply))

\* C4 (amended): a response sent to a client carries no records and rescode
\* SERVFAIL when resolve failed, no records and FORMERR when the request had
\* no question, and otherwise the rescode and the three sections of the
\* response resolve returned, whatever that rescode is.
C4_FailureCarriesNoRecords ==
    reply # NoReply =>
        IF request = NoQuestion
        THEN reply.rescode = "FORMERR" /\ NoRecords(reply)
        ELSE IF res = Err
        THEN reply.rescode = "SERVFAIL" /\ NoRecords(reply)
        ELSE /\ reply.rescode = res.ok.rescode
             /\ reply.answers = res.ok.answers
             /\ reply.authorities = res.ok.authorities
             /\ reply.resources = res.ok.resources

\* C4 witness: a response was sent after resolve failed.
C4_Witness ==
    /\ reply # NoReply
    /\ request # NoQuestion
    /\ res = Err
    /\ reply.rescode = "SERVFAIL"

\* C5: every upstream request has recursion_desired = false.
C5_RecursionNotDesired ==
    wire # NoWire => wire.recursion_desired = FALSE

(***************************************************************************)
(* SpecQname: read_qname on buffers made of two-octet cells.  Cell i lies  *)
(* at offset 2i and holds a pointer to the next cell ("P"), the one-octet  *)
(* label "A" ("L") or a terminator ("Z"); the pointer of the last cell     *)
(* leads to `far`, and octets 510 and 511 hold `tail`.                     *)
(***************************************************************************)
Cells == 0 .. (MaxCells - 1)
Layouts == [Cells -> {"P", "L", "Z"}]

Tails ==
    { [tail |-> <<0, 0>>, far |-> 0],        \* the chain closes into a cycle
      [tail |-> <<0, 0>>, far |-> 16383],    \* a pointer out of the buffer
      [tail |-> <<1, 97>>, far |-> 510],     \* a label ending at octet 511
      [tail |-> <<0, 192>>, far |-> 510],    \* half a pointer at octet 511
      [tail |-> <<192, 0>>, far |-> 510] }   \* a pointer in the last octets

CellTarget(i, t) == IF i = MaxCells - 1 THEN t.far ELSE 2 * (i + 1)

CellBuffer(layout, t) ==
    LET first(i) == IF layout[i] = "P" THEN 192 + (CellTarget(i, t) \div 256)
                    ELSE IF layout[i] = "L" THEN 1 ELSE 0
        second(i) == IF layout[i] = "P" THEN CellTarget(i, t) % 256
                     ELSE IF layout[i] = "L" THEN 65 ELSE 0
        octet(j) == IF j = 510 THEN t.tail[1]
                    ELSE IF j = 511 THEN t.tail[2]
                    ELSE IF j % 2 = 0 THEN first(j \div 2)
                    ELSE second(j \div 2)
        used == { j \in (0 .. (2 * MaxCells - 1)) \cup {510, 511} : octet(j) # 0 }
    IN  [j \in used |-> octet(j)]

QnameStarts == {0, 1, 510, 511, 512, 513}

QnameInit ==
    /\ ResolverIdle
    /\ \E layout \in Layouts, t \in Tails, s \in QnameStarts :
          /\ s > 0 => \A i \in Cells : layout[i] = "P"
          /\ buffer = [buf |-> CellBuffer(layout, t), pos |-> s, err |-> Ok]
          /\ qstart = s
    /\ qcall = NoCall
    /\ qiters = 0
    /\ qres = NoResult
    /\ WireIdle
    /\ hdr = NoHdr

\* packet.rs 487-494: read_qname is called
QnameCall ==
    /\ qcall = NoCall
    /\ qres = NoResult
    /\ qcall' = QnameEnter(buffer)
    /\ UNCHANGED <<buffer, qstart, qiters, qres, wireVars, hdr, resolverVars>>

\* packet.rs 496-535: one iteration of its loop
QnameStep ==
    /\ qcall # NoCall
    /\ qcall.at = "loop"
    /\ qcall' = QnameIter(qcall)
    /\ buffer' = qcall'.b
    /\ qiters' = qiters + 1
    /\ UNCHANGED <<qstart, qres, wireVars, hdr, resolverVars>>

\* packet.rs 498, 502, 511, 530, 537-540: read_qname returns
QnameReturn ==
    /\ qcall # NoCall
    /\ qcall.at # "loop"
    /\ LET r == QnameExit(qcall)
       IN  /\ buffer' = r.b
           /\ qres' = [name |-> r.name, jumps |-> r.jumps]
    /\ qcall' = NoCall
    /\ UNCHANGED <<qstart, qiters, wireVars, hdr, resolverVars>>

QnameNext == QnameCall \/ QnameStep \/ QnameReturn

SpecQname == QnameInit /\ [][QnameNext]_vars

\* The compression pointers a name starting at p leads through, counted
\* from k up to 6: a pointer counts when both its octets lie in the buffer.
RECURSIVE PointerHops(_, _, _)
PointerHops(buf, p, k) ==
    IF k > 5 \/ p >= BufLen THEN k
    ELSE IF Byte(buf, p) >= 192
         THEN IF p + 1 >= BufLen THEN k
              ELSE PointerHops(buf, (Byte(buf, p) - 192) * 256 + Byte(buf, p + 1), k + 1)
    ELSE IF Byte(buf, p) = 0 \/ Byte(buf, p) >= 64 THEN k
    ELSE PointerHops(buf, p + 1 + Byte(buf, p), k)

\* C7: read_qname terminates (its iterations are bounded by the jumps made
\* and the offset reached) with ok, end of buffer or jump limit; a
\* successful call has followed at most 5 pointers; a name that leads
\* through more than 5 pointers fails with the jump-limit error.
C7_JumpLimit ==
    /\ qcall # NoCall => qiters <= qcall.curr_jump * (BufLen + 1) + qcall.pos
    /\ qiters <= QnameFuel
    /\ qres # NoResult =>
        /\ buffer.err \in {Ok, EndOfBuffer, JumpLimit}
        /\ buffer.err = Ok => qres.jumps <= 5
        /\ buffer.err = Ok => qres.jumps = PointerHops(buffer.buf, qstart, 0)
        /\ PointerHops(buffer.buf, qstart, 0) > 5 => buffer.err = JumpLimit

\* C7 witness: a name of at least one label that leads through exactly 5
\* pointers was read.
C7_Witness ==
    /\ qres # NoResult
    /\ buffer.err = Ok
    /\ qres.jumps = 5
    /\ Len(qres.name) > 0

\* The offset of the first pointer of the name starting at p (-1: none).
RECURSIVE FirstPointerAt(_, _)
FirstPointerAt(buf, p) ==
    IF p >= BufLen THEN -1
    ELSE IF Byte(buf, p) >= 192 THEN p
    ELSE IF Byte(buf, p) = 0 THEN -1
    ELSE FirstPointerAt(buf, p + 1 + Byte(buf, p))

\* C8 (as stated): a successful read_qname of a name with a pointer leaves
\* the cursor at start + 2.
C8_CursorStartPlusTwo ==
    (qres # NoResult /\ buffer.err = Ok /\ qres.jumps > 0) =>
        buffer.pos = qstart + 2

\* C8 (amended): a successful read_qname of a name with a pointer leaves
\* the cursor two octets past the first pointer of the name, that is at
\* start + 2 plus the octets of the labels before that pointer.
C8_CursorPastFirstPointer ==
    (qres # NoResult /\ buffer.err = Ok /\ qres.jumps > 0) =>
        buffer.pos = FirstPointerAt(buffer.buf, qstart) + 2

\* C8 witness: a name with a label before its first pointer and a second
\* pointer after it was read.
C8_Witness ==
    /\ qres # NoResult
    /\ buffer.err = Ok
    /\ qres.jumps > 1
    /\ FirstPointerAt(buffer.buf, qstart) > qstart


(***************************************************************************)
(* SpecWire: a message is written by DNSPacket::write, sent, and read by   *)
(* DNSPacket::from_buffer; or a datagram arrives and is read.  The loops   *)
(* of write and of from_buffer advance one entry per step.                 *)
(***************************************************************************)
\* The most records a message or a datagram of the model carries.
MaxRecs == 2

\* "a", "a.B", "ns.a" and the root name ""
NameA    == <<97>>
NameUp   == <<97, 46, 66>>
NameNs   == <<110, 115, 46, 97>>
RootName == <<>>

RecordChoices ==
    { DNSRecord_A(NameA, <<10, 0, 0, 1>>, <<0, 60>>),
      DNSRecord_NS(NameUp, NameNs, <<0, 3600>>),
      DNSRecord_CNAME(NameA, RootName, <<0, 0>>),
      DNSRecord_MX(NameA, 10, NameUp, <<1, 0>>),
      DNSRecord_AAAA(RootName, <<8193, 3512, 0, 0, 0, 0, 0, 65535>>,
                     <<65535, 65535>>) }

QuestionChoices ==
    { <<>>,
      <<DNSQuestion_new(NameUp, QT("A"))>>,
      <<DNSQuestion_new(RootName, QT("NS"))>> }

HeaderChoices ==
    { [NewHeader EXCEPT !.id = 4919, !.recursion_desired = TRUE],
      [NewHeader EXCEPT !.id = 65535, !.response = TRUE, !.opcode = 15,
                        !.rescode = "NXDOMAIN", !.z = TRUE,
                        !.recursion_available = TRUE, !.answers = 7] }

\* The sequences over S of length at most n.
RECURSIVE SeqsUpTo(_, _)
SeqsUpTo(S, n) ==
    IF n = 0 THEN {<<>>}
    ELSE LET shorter == SeqsUpTo(S, n - 1)
         IN  shorter \cup {Append(q, x) : q \in shorter, x \in S}

\* The ways to cut a sequence into the three record sections.
Cuts(recs) ==
    {<<i, j>> \in (0 .. Len(recs)) \X (0 .. Len(recs)) : i <= j}

Messages ==
    { [header |-> h, questions |-> q,
       answers |-> SubSeq(recs, 1, c[1]),
       authorities |-> SubSeq(recs, c[1] + 1, c[2]),
       resources |-> SubSeq(recs, c[2] + 1, Len(recs))] :
         h \in HeaderChoices, q \in QuestionChoices,
         <<recs, c>> \in
            UNION {{r} \X Cuts(r) : r \in SeqsUpTo(RecordChoices, MaxRecs)} }

\* A buffer that holds the given octets from index 0 (UdpSocket::recv_from
\* into a new buffer, main.rs 67-68 and 79-80).
FromBytes(bytes) ==
    [buf |-> [i \in {j - 1 : j \in {k \in 1 .. Len(bytes) : bytes[k] # 0}}
                 |-> bytes[i + 1]],
     pos |-> 0, err |-> Ok]

\* The question "a" A IN, at offset 12 of a datagram.
WireQuestion == <<1, 97, 0, 0, 1, 0, 1>>

\* Records as they arrive: the name is a pointer to offset 12 or the root.
WireRecords ==
    { <<192, 12, 0, 1, 0, 1, 0, 0, 0, 60, 0, 4, 10, 0, 0, 1>>,
      <<192, 12, 0, 2, 0, 1, 0, 0, 0, 60, 0, 3, 1, 98, 0>>,
      <<192, 12, 0, 15, 0, 1, 0, 0, 0, 60, 0, 4, 0, 10, 192, 12>>,
      <<0, 0, 99, 0, 1, 0, 0, 0, 0, 0, 2, 7, 7>>,
      <<0, 0, 99, 0, 1, 0, 0, 0, 0, 255, 255>>,
      <<192, 19, 0, 99, 0, 1, 0, 0, 0, 0, 1, 244>> }

RECURSIVE Flatten(_)
Flatten(seqs) == IF seqs = <<>> THEN <<>> ELSE Head(seqs) \o Flatten(Tail(seqs))

\* A response datagram: the header with its four counts, one question, and
\* the records.
Datagrams ==
    { FromBytes(<<19, 55, 129, 128, 0, 1, 0, c[1], 0, c[2] - c[1],
                  0, Len(recs) - c[2]>> \o WireQuestion \o Flatten(recs)) :
         <<recs, c>> \in
            UNION {{r} \X Cuts(r) : r \in SeqsUpTo(WireRecords, MaxRecs)} }

WireInit ==
    /\ ResolverIdle
    /\ QnameIdle
    /\ hdr = NoHdr
    /\ written = 0
    /\ packet = NoPacket
    /\ \/ /\ msg \in Messages
          /\ buffer = NewBuffer
          /\ phase = "write_header"
       \/ /\ msg = NoPacket
          /\ buffer \in Datagrams
          /\ phase = "read_header"

\* Where DNSPacket::write is after a step: `?` returns the error, the loops
\* go on while entries remain.
AfterWrite(b, p, n) ==
    IF b.err # Ok THEN "write_failed"
    ELSE IF WriteSection(p, n) = "none" THEN "written"
    ELSE "write_body"

\* Where DNSPacket::from_buffer is after a step.
AfterRead(b, p) ==
    IF b.err # Ok THEN "read_failed"
    ELSE IF ReadSection(p) = "none" THEN "decoded"
    ELSE "read_body"

\* packet.rs 55-60
WriteHeader ==
    /\ phase = "write_header"
    /\ msg' = SyncCounts(msg)
    /\ buffer' = DNSHeader_write(msg'.header, buffer)
    /\ phase' = AfterWrite(buffer', msg', 0)
    /\ UNCHANGED <<written, packet, qnameVars, hdr, resolverVars>>

\* The entry of a loop of DNSPacket::write has left the buffer as b.
Wrote(b) ==
    /\ buffer' = b
    /\ written' = written + 1
    /\ phase' = AfterWrite(buffer', msg, written')
    /\ UNCHANGED <<msg, packet, qnameVars, hdr, resolverVars>>

\* packet.rs 62-64
WriteQuestion ==
    /\ phase = "write_body"
    /\ WriteSection(msg, written) = "questions"
    /\ Wrote(DNSQuestion_write(msg.questions[written + 1], buffer))

\* packet.rs 65-67
WriteAnswer ==
    /\ phase = "write_body"
    /\ WriteSection(msg, written) = "answers"
    /\ Wrote(DNSRecord_write(msg.answers[written - Len(msg.questions) + 1],
                             buffer))

\* packet.rs 68-70
WriteAuthority ==
    /\ phase = "write_body"
    /\ WriteSection(msg, written) = "authorities"
    /\ Wrote(DNSRecord_write(
                 msg.authorities[written - Len(msg.questions)
                                   - Len(msg.answers) + 1], buffer))

\* packet.rs 71-73
WriteResource ==
    /\ phase = "write_body"
    /\ WriteSection(msg, written) = "resources"
    /\ Wrote(DNSRecord_write(
                 msg.resources[written - Len(msg.questions)
                                 - Len(msg.answers)
                                 - Len(msg.authorities) + 1], buffer))

\* main.rs 60-69, 112-117: the octets before the cursor are sent, and are
\* received into a new buffer
Transmit ==
    /\ phase = "written"
    /\ buffer' = [buf |-> [i \in {j \in DOMAIN buffer.buf : j < buffer.pos}
                              |-> buffer.buf[i]],
                  pos |-> 0, err |-> Ok]
    /\ phase' = "read_header"
    /\ UNCHANGED <<msg, written, packet, qnameVars, hdr, resolverVars>>

\* packet.rs 27-28
ReadHeader ==
    /\ phase = "read_header"
    /\ LET r == DNSHeader_read(buffer)
       IN  /\ buffer' = r.b
           /\ packet' = [DNSPacket_new EXCEPT !.header = r.header]
    /\ phase' = AfterRead(buffer', packet')
    /\ UNCHANGED <<msg, written, qnameVars, hdr, resolverVars>>

\* packet.rs 30-34
ReadQuestion ==
    /\ phase = "read_body"
    /\ ReadSection(packet) = "questions"
    /\ LET r == DNSQuestion_read(buffer)
       IN  /\ buffer' = r.b
           /\ packet' = IF r.b.err # Ok THEN packet
                        ELSE [packet EXCEPT
                                !.questions = Append(@, r.question)]
    /\ phase' = AfterRead(buffer', packet')
    /\ UNCHANGED <<msg, written, qnameVars, hdr, resolverVars>>

\* DNSRecord::read has run in a loop of DNSPacket::from_buffer; p is the
\* packet with the record pushed.
ReadRecord(p) ==
    /\ buffer' = DNSRecord_read(buffer).b
    /\ packet' = IF buffer'.err # Ok THEN packet ELSE p
    /\ phase' = AfterRead(buffer', packet')
    /\ UNCHANGED <<msg, written, qnameVars, hdr, resolverVars>>

\* packet.rs 36-39
ReadAnswer ==
    /\ phase = "read_body"
    /\ ReadSection(packet) = "answers"
    /\ ReadRecord([packet EXCEPT
                     !.answers = Append(@, DNSRecord_read(buffer).rec)])

\* packet.rs 41-44
ReadAuthority ==
    /\ phase = "read_body"
    /\ ReadSection(packet) = "authorities"
    /\ ReadRecord([packet EXCEPT
                     !.authorities = Append(@, DNSRecord_read(buffer).rec)])

\* packet.rs 46-49
ReadResource ==
    /\ phase = "read_body"
    /\ ReadSection(packet) = "resources"
    /\ ReadRecord([packet EXCEPT
                     !.resources = Append(@, DNSRecord_read(buffer).rec)])

WireNext ==
    \/ WriteHeader
    \/ WriteQuestion
    \/ WriteAnswer
    \/ WriteAuthority
    \/ WriteResource
    \/ Transmit
    \/ ReadHeader
    \/ ReadQuestion
    \/ ReadAnswer
    \/ ReadAuthority
    \/ ReadResource

SpecWire == WireInit /\ [][WireNext]_vars

\* C6: the cursor of the buffer stays within the 512 octets, 0 <= pos <= 512,
\* whatever is read: an operation that would move it past octet 512 fails.
C6_CursorInBounds == buffer.pos >= 0 /\ buffer.pos <= BufLen

LowerName(name) == [i \in 1 .. Len(name) |-> LowerChar(name[i])]
LowerRecord(rec) ==
    [rec EXCEPT !.domain = LowerName(@), !.host = LowerName(@)]
LowerRecords(recs) == [i \in 1 .. Len(recs) |-> LowerRecord(recs[i])]

\* The message with its names lowercased.
Lowercased(p) ==
    [p EXCEPT !.questions = [i \in 1 .. Len(@) |->
                               [@[i] EXCEPT !.name = LowerName(@)]],
              !.answers = LowerRecords(@),
              !.authorities = LowerRecords(@),
              !.resources = LowerRecords(@)]

\* The names of a message.
NamesOf(p) ==
    {p.questions[i].name : i \in 1 .. Len(p.questions)}
      \cup UNION {{recs[i].domain : i \in 1 .. Len(recs)}
                    \cup {recs[i].host :
                            i \in {k \in 1 .. Len(recs) :
                                     recs[k].type \in {"NS", "CNAME", "MX"}}} :
                  recs \in {p.answers, p.authorities, p.resources}}

Exchanged == msg # NoPacket /\ phase \in {"decoded", "read_failed"}

\* C9: a message of A, NS, CNAME, MX and AAAA records, root names included,
\* that was written within the 512 octets is read back as the same message,
\* with the header counts set to the section lengths and names lowercased.
C9_MessageRoundTrip ==
    Exchanged => phase = "decoded" /\ packet = Lowercased(msg)

\* The round trip of the messages that hold no root name.
RoundTripWithoutRootName ==
    Exchanged /\ RootName \notin NamesOf(msg)
        => phase = "decoded" /\ packet = Lowercased(msg)


(***************************************************************************)
(* SpecHdr: twelve octets are read by DNSHeader::read and the header is    *)
(* written to a new buffer by DNSHeader::write; or a header is written and *)
(* the octets are read back.                                               *)
(***************************************************************************)
\* The twelve octets of a header: the first flags octet from a few values,
\* the second from all of them.
HeaderOctets ==
    { <<id, 255 - id, a, fb, 0, 1, 1, 0, 255, 255, 0, 2>> :
         id \in {0, 19}, a \in {0, 1, 120, 133, 255}, fb \in 0 .. 255 }

\* Header values; opcode is one of the 16 values read() can produce.
Headers ==
    { [id |-> x[1], recursion_desired |-> f[1], truncated_message |-> f[2],
       authoritative_answer |-> f[3], opcode |-> op, response |-> f[4],
       rescode |-> rc, cheching_disabled |-> f[5], authed_data |-> f[6],
       z |-> f[7], recursion_available |-> f[8],
       questions |-> x[2], answers |-> x[3],
       authoritative_entries |-> x[4], resource_entries |-> x[5]] :
         x \in {<<4919, 1, 0, 0, 0>>, <<65535, 256, 65535, 2, 255>>},
         f \in [1 .. 8 -> BOOLEAN],
         op \in {0, 5, 15},
         rc \in {"NOERROR", "FORMERR", "SERVFAIL", "NXDOMAIN", "NOTIMP",
                 "REFUSED"} }

HdrInit ==
    /\ ResolverIdle
    /\ QnameIdle
    /\ WireIdle
    /\ \/ \E o \in HeaderOctets :
            /\ buffer = FromBytes(o)
            /\ hdr = [from |-> "octets", octets |-> FromBytes(o).buf,
                      given |-> NoHdr, header |-> NewHeader, step |-> "read"]
       \/ \E h \in Headers :
            /\ buffer = NewBuffer
            /\ hdr = [from |-> "value", octets |-> NoBytes,
                      given |-> h, header |-> h, step |-> "write"]

\* packet.rs 417-442, on the octets of the buffer from index 0
HdrRead ==
    /\ hdr # NoHdr
    /\ hdr.step = "read"
    /\ LET r == DNSHeader_read([buffer EXCEPT !.pos = 0])
       IN  /\ buffer' = r.b
           /\ hdr' = [hdr EXCEPT !.header = r.header,
                                 !.step = IF hdr.from = "octets"
                                          THEN "write" ELSE "done"]
    /\ UNCHANGED <<qnameVars, wireVars, resolverVars>>

\* packet.rs 446-471, into a new buffer
HdrWrite ==
    /\ hdr # NoHdr
    /\ hdr.step = "write"
    /\ buffer' = DNSHeader_write(hdr.header, NewBuffer)
    /\ hdr' = [hdr EXCEPT !.step = IF hdr.from = "value"
                                   THEN "read" ELSE "done"]
    /\ UNCHANGED <<qnameVars, wireVars, resolverVars>>

HdrNext == HdrRead \/ HdrWrite

SpecHdr == HdrInit /\ [][HdrNext]_vars

HdrDone == hdr # NoHdr /\ hdr.step = "done" /\ buffer.err = Ok

\* The RCODE nibble of the octets a header was read from.
GivenRcode == Byte(hdr.octets, 3) % 16

\* C10 as stated: writing the header read from twelve octets gives the same
\* twelve octets, and reading the octets written from a header gives the
\* same header.
C10_BitExactMirror ==
    HdrDone =>
      /\ hdr.from = "octets" => buffer.buf = hdr.octets
      /\ hdr.from = "value" => hdr.header = hdr.given

\* C10: reading the octets written from a header gives the same header;
\* writing the header read from twelve octets gives the same twelve octets
\* when their RCODE nibble is 0 to 5, and gives them with the RCODE nibble
\* cleared when it is 6 to 15.
C10_MirrorUpToRcode ==
    HdrDone =>
      /\ hdr.from = "octets" /\ GivenRcode <= 5 => buffer.buf = hdr.octets
      /\ hdr.from = "octets" /\ GivenRcode > 5 =>
            buffer.buf = Put(hdr.octets, 3, Byte(hdr.octets, 3) - GivenRcode)
      /\ hdr.from = "value" => hdr.header = hdr.given
      /\ buffer.pos = 12

\* C10 witness: twelve octets with every flag bit set and RCODE 5 went
\* through read and write and came out the same.
C10_Witness ==
    /\ HdrDone
    /\ hdr.from = "octets"
    /\ Byte(hdr.octets, 2) = 255
    /\ Byte(hdr.octets, 3) = 245
    /\ buffer.buf = hdr.octets


(***************************************************************************)
(* SpecEncode: DNSPacket::write on messages whose encoding ends around     *)
(* octet 512, with records of every variant, UNKNOWN included (the records *)
(* handle_query copies from an upstream response, main.rs 93-104).         *)
(***************************************************************************)
\* The longest question name of these messages; it shifts the records
\* octet by octet.
MaxShift == 18

\* A name of one label of n letters "a".
Label(n) == [i \in 1 .. n |-> 97]

\* An A record of 18 octets on the wire, and how many of them precede the
\* last two records.
Filler == DNSRecord_A(Label(2), <<10, 0, 0, 2>>, <<0, 60>>)
Fillers == {25, 26, 27}

EncodeRecordChoices ==
    RecordChoices \cup {DNSRecord_UNKNOWN(NameA, 99, 2, <<0, 0>>)}

LongMessages ==
    { [header |-> [NewHeader EXCEPT !.id = 4919, !.response = TRUE],
       questions |-> <<DNSQuestion_new(Label(r), QT("A"))>>,
       answers |-> [i \in 1 .. k |-> Filler],
       authorities |-> <<x>>,
       resources |-> <<y>>] :
         r \in 1 .. MaxShift, k \in Fillers,
         x \in EncodeRecordChoices, y \in EncodeRecordChoices }

EncodeInit ==
    /\ ResolverIdle
    /\ QnameIdle
    /\ hdr = NoHdr
    /\ written = 0
    /\ packet = NoPacket
    /\ msg \in LongMessages
    /\ buffer = NewBuffer
    /\ phase = "write_header"

EncodeNext ==
    \/ WriteHeader
    \/ WriteQuestion
    \/ WriteAnswer
    \/ WriteAuthority
    \/ WriteResource

SpecEncode == EncodeInit /\ [][EncodeNext]_vars

\* The octets a name, a question and a record take on the wire as
\* write_qname and DNSRecord::write lay them out.
NameSize(name) == IF name = <<>> THEN 2 ELSE Len(name) + 2
RecordSize(rec) ==
    IF rec.type = "UNKNOWN" THEN 0
    ELSE NameSize(rec.domain) + 10
           + (IF rec.type = "A" THEN 4
              ELSE IF rec.type = "AAAA" THEN 16
              ELSE IF rec.type = "MX" THEN 2 + NameSize(rec.host)
              ELSE NameSize(rec.host))
RECURSIVE RecordsSize(_, _)
RecordsSize(recs, i) ==
    IF i > Len(recs) THEN 0 ELSE RecordSize(recs[i]) + RecordsSize(recs, i + 1)
WireSize(p) ==
    12 + NameSize(p.questions[1].name) + 4 + RecordsSize(p.answers, 1)
       + RecordsSize(p.authorities, 1) + RecordsSize(p.resources, 1)

Writing ==
    msg # NoPacket /\ phase \in {"write_body", "written", "write_failed"}

\* C11: DNSPacket::write never stores at an index of 512 or more, the back
\* patch of RDLENGTH included: no store is out of range, the cursor stays
\* within the buffer, a message that fits is written whole and a message
\* that does not fit makes write return the end-of-buffer error.
C11_NoWritePastEnd ==
    Writing =>
      /\ buffer.err \in {Ok, EndOfBuffer}
      /\ \A i \in DOMAIN buffer.buf : i < BufLen
      /\ buffer.pos <= BufLen
      /\ phase = "write_failed" <=> buffer.err = EndOfBuffer
      /\ phase = "written" => buffer.pos = WireSize(msg)
      /\ phase = "write_failed" => WireSize(msg) > BufLen /\ buffer.pos = BufLen

\* C11 witness: write failed at the end of the buffer inside the MX record
\* of the authority section, whose RDLENGTH is back patched.
C11_Witness ==
    /\ Writing
    /\ phase = "write_failed"
    /\ buffer.pos = BufLen
    /\ msg.authorities[1].type = "MX"
    /\ written = Len(msg.questions) + Len(msg.answers) + 1

\* The count of section k (0 questions .. 3 resources) in the written header.
WireCount(k) == Byte(buffer.buf, 4 + 2 * k) * 256 + Byte(buffer.buf, 5 + 2 * k)

\* The records of a section for which DNSRecord::write puts octets on the
\* wire.
Emitted(recs) ==
    Cardinality({i \in 1 .. Len(recs) :
                   DNSRecord_write(recs[i], NewBuffer).pos > 0})

\* C12: when DNSPacket::write has written a message, each of the four
\* counts in the written header equals the number of entries written for
\* that section.
C12_CountsMatchEntries ==
    msg # NoPacket /\ phase = "written" =>
      /\ WireCount(0) = Len(msg.questions)
      /\ WireCount(1) = Emitted(msg.answers)
      /\ WireCount(2) = Emitted(msg.authorities)
      /\ WireCount(3) = Emitted(msg.resources)

=============================================================================
